---- MODULE Spec2Model ----
\* A model of the chatbot response path of the Quantum Protein Folding
\* dashboard: the provider fallback chain of ai_backends.get_response behind
\* the /chat endpoint, the regex rule table of BuiltInChatbot, and the
\* Streamlit session of the dashboard that feeds the rule table its context.
\*
\* Text is modelled character by character: a Python str is a sequence of
\* one-character strings, so that lower(), strip(), the `in` substring test,
\* slicing and the regular expressions (\b, .*) are computed as Python
\* computes them.  The long multi-line literal answers of the knowledge bases
\* are each one element "<name>" of such a sequence: a fixed text that no
\* substring test of the program looks into.
EXTENDS Integers, Sequences, FiniteSets, TLC

VARIABLES
    client,          \* ai_backends.client: TRUE iff an OpenAI client was built
    GEMINI_API_KEY,  \* ai_backends.GEMINI_API_KEY: TRUE iff the key is set
    pc,              \* position of the /chat request being served
    model_choice,    \* req.model
    query,           \* req.query
    context,         \* req.context or {}
    calls,           \* strategies invoked so far by this get_response call
    errs,            \* texts of the exceptions caught so far (e, e1, e2)
    result,          \* what get_response returned
    rquery,          \* BuiltInChatbot.get_response: query argument
    rcontext,        \* BuiltInChatbot.get_response: context argument
    rresponse,       \* BuiltInChatbot.get_response: its outcome
    protein_sequence,   \* st.session_state.protein_sequence
    vqe_results,        \* st.session_state.vqe_results
    energy_history,     \* st.session_state.energy_history
    classical_results,  \* st.session_state.classical_results
    chat_history,       \* st.session_state.chat_history
    chat_context,       \* st.session_state.chat_context
    config,             \* st.session_state.config
    http,            \* what requests.get did in the last script run
    vqe_input,       \* the sequence the last script run gave run_vqe_simulation
    routed_query,    \* the query the last script run gave the chatbot
    routed_context,  \* the context the last script run gave the chatbot
    gmodel,          \* get_gemini_response: model argument
    gfirst,          \* what generate_content does on the requested model
    gsecond,         \* what generate_content does on the fallback model
    gresult          \* get_gemini_response: its outcome

backendVars == <<client, GEMINI_API_KEY, pc, model_choice, query, context, calls, errs, result>>
routerVars == <<rquery, rcontext, rresponse>>
sessionVars == <<protein_sequence, vqe_results, energy_history, classical_results,
                 chat_history, chat_context, config, http, vqe_input,
                 routed_query, routed_context>>
geminiVars == <<gmodel, gfirst, gsecond, gresult>>
vars == <<backendVars, routerVars, sessionVars, geminiVars>>

-----------------------------------------------------------------------------
\* Python values and str operations

\* A Python value: None, a str, an int, an object whose __str__ raises, or
\* "absent" (no such key in a dict).
PyNone == [t |-> "none", s |-> <<>>, n |-> 0]
Absent == [t |-> "absent", s |-> <<>>, n |-> 0]
PyStr(s) == [t |-> "str", s |-> s, n |-> 0]
PyInt(n) == [t |-> "int", s |-> <<>>, n |-> n]
PyObject == [t |-> "object", s |-> <<>>, n |-> 0]

\* bool(v)
Truthy(v) ==
    CASE v.t = "str" -> v.s # <<>>
      [] v.t = "int" -> v.n # 0
      [] v.t = "object" -> TRUE
      [] OTHER -> FALSE

\* dict.get(key): None when the key is absent
Get(v) == IF v.t = "absent" THEN PyNone ELSE v

UpperCase == <<"A","B","C","D","E","F","G","H","I","J","K","L","M","N","O","P","Q","R","S","T","U","V","W","X","Y","Z">>
LowerCase == <<"a","b","c","d","e","f","g","h","i","j","k","l","m","n","o","p","q","r","s","t","u","v","w","x","y","z">>
Digits == <<"0","1","2","3","4","5","6","7","8","9">>

LowerChar(c) ==
    IF \E i \in 1..Len(UpperCase) : UpperCase[i] = c
    THEN LowerCase[CHOOSE i \in 1..Len(UpperCase) : UpperCase[i] = c]
    ELSE c

\* str.lower()
Lower(s) == [i \in 1..Len(s) |-> LowerChar(s[i])]

IsSpace(c) == c \in {" ", "\n", "\t"}

\* str.strip()
Strip(s) ==
    IF \A i \in 1..Len(s) : IsSpace(s[i]) THEN <<>>
    ELSE LET first == CHOOSE i \in 1..Len(s) :
                          /\ ~IsSpace(s[i])
                          /\ \A j \in 1..(i-1) : IsSpace(s[j])
             last == CHOOSE i \in 1..Len(s) :
                          /\ ~IsSpace(s[i])
                          /\ \A j \in (i+1)..Len(s) : IsSpace(s[j])
         IN SubSeq(s, first, last)

\* sub occurs in s at (1-based) position p
At(s, sub, p) ==
    /\ p >= 1
    /\ p + Len(sub) - 1 <= Len(s)
    /\ \A k \in 1..Len(sub) : s[p + k - 1] = sub[k]

\* sub in s
Contains(s, sub) == \E p \in 1..(Len(s) + 1) : At(s, sub, p)

TakeAll(s, n) == s

\* s[:n]
Take(s, n) == SubSeq(s, 1, IF Len(s) < n THEN Len(s) ELSE n)

\* str(n) for an int n >= 0
RECURSIVE Decimal(_)
Decimal(n) == IF n < 10 THEN <<Digits[n + 1]>>
              ELSE Decimal(n \div 10) \o <<Digits[(n % 10) + 1]>>

\* str(v), as an f-string renders a value
Format(v) ==
    CASE v.t = "str" -> v.s
      [] v.t = "int" -> IF v.n < 0 THEN <<"-">> \o Decimal(-v.n) ELSE Decimal(v.n)
      [] OTHER -> <<"N","o","n","e">>

-----------------------------------------------------------------------------
\* ai_backends.py

\* What a function call produced: a str, None, or an exception with a text.
Return(s) == [kind |-> "str", text |-> s]
ReturnNone == [kind |-> "none", text |-> <<>>]
Raise(s) == [kind |-> "raise", text |-> s]
NoResult == [kind |-> "pending", text |-> <<>>]

\* What a remote call did: it answered (with a response of some shape) or it
\* failed with an exception whose text is err.
Answer(shape, s) == [ok |-> TRUE, shape |-> shape, text |-> s, err |-> <<>>]
Failure(e) == [ok |-> FALSE, shape |-> "none", text |-> <<>>, err |-> e]

OpenAINotConfigured == <<"O","p","e","n","A","I"," ","c","l","i","e","n","t"," ","n","o","t"," ","c","o","n","f","i","g","u","r","e","d">>
GeminiNotConfigured == <<"G","e","m","i","n","i"," ","A","P","I"," ","k","e","y"," ","n","o","t"," ","c","o","n","f","i","g","u","r","e","d">>
DefaultGeminiModel == "models/gemini-2.5-flash"
FallbackGeminiModel == "models/gemini-flash-latest"

\* get_chatgpt_response: create is the outcome of client.chat.completions.create
get_chatgpt_response(create) ==
    IF ~client THEN Raise(OpenAINotConfigured)
    ELSE IF ~create.ok THEN Raise(create.err)
    ELSE CASE create.shape = "message_object" -> Return(create.text)
           [] create.shape = "content_none" -> ReturnNone
           [] create.shape = "message_dict" -> Return(create.text)
           [] create.shape = "dict_content_none" -> Return(<<>>)
           [] create.shape = "no_message" -> Return(<<"<str(choice)>">>)
           [] OTHER -> Return(<<"<str(resp)>">>)

get_gemini_response_last_error(model, first, second) ==
    IF ~GEMINI_API_KEY THEN Raise(GeminiNotConfigured)
    ELSE IF first.ok THEN Return(first.text)
    ELSE IF model # FallbackGeminiModel /\ second.ok THEN Return(second.text)
    ELSE IF model # FallbackGeminiModel THEN Raise(<<"G","e","m","i","n","i"," ","e","r","r","o","r",":"," ">> \o second.err)
    ELSE Raise(<<"G","e","m","i","n","i"," ","e","r","r","o","r",":"," ">> \o first.err)

\* get_gemini_response: first and second are the outcomes of generate_content
\* on the requested model and on the fallback model
get_gemini_response(model, first, second) ==
    IF ~GEMINI_API_KEY THEN Raise(GeminiNotConfigured)
    ELSE IF first.ok THEN Return(first.text)
    ELSE IF model # FallbackGeminiModel /\ second.ok THEN Return(second.text)
    ELSE Raise(<<"G","e","m","i","n","i"," ","e","r","r","o","r",":"," ">> \o first.err)

KbVqe == <<"<kb: VQE is a hybrid quantum-classical algorithm>">>
KbProtein == <<"<kb: Protein folding is the process>">>
KbQuantum == <<"<kb: Quantum computing leverages superposition>">>
KbNoApi == <<"<kb: I don't have an external API connection>">>

local_kb_response(q0, ctx) ==
    LET q == Lower(q0)
        got == Get(ctx.current_protein)
        current == IF Truthy(got) THEN got ELSE PyStr(<<"n","o"," ","s","e","q","u","e","n","c","e"," ","l","o","a","d","e","d">>)
    IN  IF Contains(q, <<"v","q","e">>) \/ Contains(q, <<"v","a","r","i","a","t","i","o","n","a","l">>) THEN KbVqe
        ELSE IF Contains(q, <<"p","r","o","t","e","i","n">>) \/ Contains(q, <<"f","o","l","d">>) \/ Contains(q, <<"s","t","r","u","c","t","u","r","e">>)
        THEN IF /\ Truthy(current)
                /\ current # PyStr(<<"N","o","n","e">>)
                /\ current # PyStr(<<"n","o"," ","s","e","q","u","e","n","c","e"," ","l","o","a","d","e","d">>)
             THEN <<"C","u","r","r","e","n","t","l","y"," ","l","o","a","d","e","d"," ","p","r","o","t","e","i","n"," ","(","p","r","e","v","i","e","w",")",":"," ">> \o Format(current)
                  \o <<"."," ">> \o <<"<kb: Protein folding depends on sequence interactions>">>
             ELSE KbProtein
        ELSE IF Contains(q, <<"q","u","a","n","t","u","m">>) \/ Contains(q, <<"q","u","b","i","t">>) \/ Contains(q, <<"e","n","t","a","n","g","l","e","m","e","n","t">>)
        THEN KbQuantum
        ELSE KbNoApi

\* Which branch of get_response a selector takes
Route(mc) ==
    IF Truthy(mc) /\ Contains(Lower(mc.s), <<"g","e","m","i","n","i">>) THEN "gemini"
    ELSE IF Truthy(mc) /\ Contains(Lower(mc.s), <<"c","h","a","t","g","p","t">>) THEN "chatgpt"
    ELSE "default"

\* The provider each branch calls in its outer try
FirstProviderSwapped(route) == IF route = "chatgpt" THEN "gemini" ELSE "chatgpt"

FirstProvider(route) == IF route = "chatgpt" THEN "chatgpt" ELSE "gemini"

\* The provider each branch calls in its except handler ("none": the handler
\* of the gemini branch goes straight to the local answer)
SecondProviderSymmetric(route) ==
    CASE route = "gemini" -> "chatgpt"
      [] route = "chatgpt" -> "gemini"
      [] OTHER -> "chatgpt"

SecondProvider(route) ==
    CASE route = "gemini" -> "none"
      [] route = "chatgpt" -> "gemini"
      [] OTHER -> "chatgpt"

ProviderAtRepeat(route, stage) ==
    IF stage \in {"first", "second"} THEN FirstProvider(route) ELSE "none"

ProviderAt(route, stage) ==
    IF stage = "first" THEN FirstProvider(route)
    ELSE IF stage = "second" THEN SecondProvider(route)
    ELSE "none"

QuotaPrefix == <<"G","e","m","i","n","i"," ","A","P","I"," ","q","u","o","t","a"," ","e","x","c","e","e","d","e","d","."," ">>
ConfigPrefix == <<"G","e","m","i","n","i"," ","A","P","I"," ","c","o","n","f","i","g","u","r","a","t","i","o","n"," ","e","r","r","o","r"," ","(","c","h","e","c","k"," ","k","e","y"," ","p","e","r","m","i","s","s","i","o","n","s",")","."," ">>
PrefixLimit == 100

\* The exception a handler reports, of those caught so far: the one of the
\* outer try (e in the selector branches, e1 in the default branch)
ReportedErrorLast(es) == es[Len(es)]

ReportedError(es) == es[1]

DiagnosticPrefixCaseSensitive(route, e) ==
    CASE route = "gemini" -> <<"G","e","m","i","n","i"," ","e","r","r","o","r",":"," ">> \o e \o <<"\n", "\n">>
      [] route = "chatgpt" -> <<"O","p","e","n","A","I"," ","e","r","r","o","r",":"," ">> \o e \o <<"\n", "\n">>
      [] OTHER ->
           IF Contains(e, <<"q","u","o","t","a">>) \/ Contains(e, <<"4","2","9">>) THEN QuotaPrefix
           ELSE IF Contains(e, <<"4","0","0">>) THEN ConfigPrefix
           ELSE <<"A","P","I"," ","e","r","r","o","r"," ","(">> \o Take(e, PrefixLimit) \o <<")","."," ">>

\* The text put in front of the local answer, from the text e of the exception
\* reported
DiagnosticPrefix(route, e) ==
    CASE route = "gemini" -> <<"G","e","m","i","n","i"," ","e","r","r","o","r",":"," ">> \o e \o <<"\n", "\n">>
      [] route = "chatgpt" -> <<"O","p","e","n","A","I"," ","e","r","r","o","r",":"," ">> \o e \o <<"\n", "\n">>
      [] OTHER ->
           IF Contains(Lower(e), <<"q","u","o","t","a">>) \/ Contains(e, <<"4","2","9">>) THEN QuotaPrefix
           ELSE IF Contains(e, <<"4","0","0">>) THEN ConfigPrefix
           ELSE <<"A","P","I"," ","e","r","r","o","r"," ","(">> \o Take(e, PrefixLimit) \o <<")","."," ">>

\* The local answer the handlers append
LocalAnswerNoContext(q, ctx) == local_kb_response(q, [ctx EXCEPT !.current_protein = Absent])

LocalAnswer(q, ctx) == local_kb_response(q, ctx)

-----------------------------------------------------------------------------
\* protein_folding_app.py: BuiltInChatbot

WordChars == { UpperCase[i] : i \in 1..Len(UpperCase) }
             \cup { LowerCase[i] : i \in 1..Len(LowerCase) }
             \cup { Digits[i] : i \in 1..Len(Digits) } \cup {"_"}

\* \b holds in s at the gap in front of position p (p = Len(s)+1: the end)
Boundary(s, p) ==
    LET before == p > 1 /\ s[p - 1] \in WordChars
        after == p <= Len(s) /\ s[p] \in WordChars
    IN  before # after

\* Every pattern of the knowledge base has the shape \b L1 .* L2 ... .* Ln \b
\* with literals Li; it is held as <<L1, ..., Ln>>.  MatchParts: the literals
\* from the k-th on match s with the k-th starting at p ('.' matches any
\* character but a newline).
RECURSIVE MatchParts(_, _, _, _)
MatchParts(s, parts, k, p) ==
    /\ At(s, parts[k], p)
    /\ LET e == p + Len(parts[k])
       IN  IF k = Len(parts) THEN Boundary(s, e)
           ELSE \E p2 \in e..(Len(s) + 1) :
                   /\ \A j \in e..(p2 - 1) : s[j] # "\n"
                   /\ MatchParts(s, parts, k + 1, p2)

\* re.search(pattern, s)
Search(parts, s) == \E p \in 1..(Len(s) + 1) : Boundary(s, p) /\ MatchParts(s, parts, 1, p)

\* vqe_what: \bwhat.*vqe\b  \bvqe.*is\b  \bexplain.*vqe\b  \bdefine.*vqe\b  \btell.*about.*vqe\b
RuleVqeWhat ==
    [ category |-> "vqe_what",
      patterns |-> << <<<<"w","h","a","t">>, <<"v","q","e">>>>,
                      <<<<"v","q","e">>, <<"i","s">>>>,
                      <<<<"e","x","p","l","a","i","n">>, <<"v","q","e">>>>,
                      <<<<"d","e","f","i","n","e">>, <<"v","q","e">>>>,
                      <<<<"t","e","l","l">>, <<"a","b","o","u","t">>, <<"v","q","e">>>> >>,
      response |-> <<"<vqe_what>">> ]

\* vqe_how: \bhow.*vqe.*work\b  \bvqe.*process\b  \bvqe.*algorithm\b  \bvqe.*steps\b
RuleVqeHow ==
    [ category |-> "vqe_how",
      patterns |-> << <<<<"h","o","w">>, <<"v","q","e">>, <<"w","o","r","k">>>>,
                      <<<<"v","q","e">>, <<"p","r","o","c","e","s","s">>>>,
                      <<<<"v","q","e">>, <<"a","l","g","o","r","i","t","h","m">>>>,
                      <<<<"v","q","e">>, <<"s","t","e","p","s">>>> >>,
      response |-> <<"<vqe_how>">> ]

\* vqe_results_check: \bresult\b  \benergy\b  \boutput\b  \bfinal.*energy\b  \bshow.*result\b
RuleVqeResultsCheck ==
    [ category |-> "vqe_results_check",
      patterns |-> << <<<<"r","e","s","u","l","t">>>>,
                      <<<<"e","n","e","r","g","y">>>>,
                      <<<<"o","u","t","p","u","t">>>>,
                      <<<<"f","i","n","a","l">>, <<"e","n","e","r","g","y">>>>,
                      <<<<"s","h","o","w">>, <<"r","e","s","u","l","t">>>> >>,
      response |-> <<"C","O","N","T","E","X","T","_","V","Q","E","_","R","E","S","U","L","T","S">> ]

\* protein_folding: \bprotein.*fold\b  \bfolding.*process\b  \bhow.*protein.*fold\b  \bfolding.*mechanism\b
RuleProteinFolding ==
    [ category |-> "protein_folding",
      patterns |-> << <<<<"p","r","o","t","e","i","n">>, <<"f","o","l","d">>>>,
                      <<<<"f","o","l","d","i","n","g">>, <<"p","r","o","c","e","s","s">>>>,
                      <<<<"h","o","w">>, <<"p","r","o","t","e","i","n">>, <<"f","o","l","d">>>>,
                      <<<<"f","o","l","d","i","n","g">>, <<"m","e","c","h","a","n","i","s","m">>>> >>,
      response |-> <<"<protein_folding>">> ]

\* protein_sequence_check: \bsequence\b  \bamino.*acid\b  \bcurrent.*protein\b  \bloaded.*protein\b  \bmy.*protein\b
RuleProteinSequenceCheck ==
    [ category |-> "protein_sequence_check",
      patterns |-> << <<<<"s","e","q","u","e","n","c","e">>>>,
                      <<<<"a","m","i","n","o">>, <<"a","c","i","d">>>>,
                      <<<<"c","u","r","r","e","n","t">>, <<"p","r","o","t","e","i","n">>>>,
                      <<<<"l","o","a","d","e","d">>, <<"p","r","o","t","e","i","n">>>>,
                      <<<<"m","y">>, <<"p","r","o","t","e","i","n">>>> >>,
      response |-> <<"C","O","N","T","E","X","T","_","P","R","O","T","E","I","N","_","S","E","Q","U","E","N","C","E">> ]

\* protein_structure: \b3d.*structure\b  \bstructure.*protein\b  \bbackbone\b  \bconformation\b  \btertiary\b
RuleProteinStructure ==
    [ category |-> "protein_structure",
      patterns |-> << <<<<"3","d">>, <<"s","t","r","u","c","t","u","r","e">>>>,
                      <<<<"s","t","r","u","c","t","u","r","e">>, <<"p","r","o","t","e","i","n">>>>,
                      <<<<"b","a","c","k","b","o","n","e">>>>,
                      <<<<"c","o","n","f","o","r","m","a","t","i","o","n">>>>,
                      <<<<"t","e","r","t","i","a","r","y">>>> >>,
      response |-> <<"<protein_structure>">> ]

\* quantum_advantage: \bquantum.*advantage\b  \bwhy.*quantum\b  \bquantum.*better\b  \bquantum.*vs.*classical\b
RuleQuantumAdvantage ==
    [ category |-> "quantum_advantage",
      patterns |-> << <<<<"q","u","a","n","t","u","m">>, <<"a","d","v","a","n","t","a","g","e">>>>,
                      <<<<"w","h","y">>, <<"q","u","a","n","t","u","m">>>>,
                      <<<<"q","u","a","n","t","u","m">>, <<"b","e","t","t","e","r">>>>,
                      <<<<"q","u","a","n","t","u","m">>, <<"v","s">>, <<"c","l","a","s","s","i","c","a","l">>>> >>,
      response |-> <<"<quantum_advantage>">> ]

\* qubits: \bqubit\b  \bquantum.*bit\b  \bhow.*many.*qubit\b  \bqubit.*need\b
RuleQubits ==
    [ category |-> "qubits",
      patterns |-> << <<<<"q","u","b","i","t">>>>,
                      <<<<"q","u","a","n","t","u","m">>, <<"b","i","t">>>>,
                      <<<<"h","o","w">>, <<"m","a","n","y">>, <<"q","u","b","i","t">>>>,
                      <<<<"q","u","b","i","t">>, <<"n","e","e","d">>>> >>,
      response |-> <<"<qubits>">> ]

\* ansatz: \bansatz\b  \bcircuit.*template\b  \befficient.*su2\b  \breal.*amplitude\b  \btwo.*local\b
RuleAnsatz ==
    [ category |-> "ansatz",
      patterns |-> << <<<<"a","n","s","a","t","z">>>>,
                      <<<<"c","i","r","c","u","i","t">>, <<"t","e","m","p","l","a","t","e">>>>,
                      <<<<"e","f","f","i","c","i","e","n","t">>, <<"s","u","2">>>>,
                      <<<<"r","e","a","l">>, <<"a","m","p","l","i","t","u","d","e">>>>,
                      <<<<"t","w","o">>, <<"l","o","c","a","l">>>> >>,
      response |-> <<"<ansatz>">> ]

\* optimizer: \boptimizer\b  \bcobyla\b  \bslsqp\b  \bl-bfgs-b\b  \bwhich.*optimizer\b
RuleOptimizer ==
    [ category |-> "optimizer",
      patterns |-> << <<<<"o","p","t","i","m","i","z","e","r">>>>,
                      <<<<"c","o","b","y","l","a">>>>,
                      <<<<"s","l","s","q","p">>>>,
                      <<<<"l","-","b","f","g","s","-","b">>>>,
                      <<<<"w","h","i","c","h">>, <<"o","p","t","i","m","i","z","e","r">>>> >>,
      response |-> <<"<optimizer>">> ]

\* diseases: \bdisease\b  \balzheimer\b  \bparkinson\b  \bhuntington\b  \bmisfolding.*disease\b
RuleDiseases ==
    [ category |-> "diseases",
      patterns |-> << <<<<"d","i","s","e","a","s","e">>>>,
                      <<<<"a","l","z","h","e","i","m","e","r">>>>,
                      <<<<"p","a","r","k","i","n","s","o","n">>>>,
                      <<<<"h","u","n","t","i","n","g","t","o","n">>>>,
                      <<<<"m","i","s","f","o","l","d","i","n","g">>, <<"d","i","s","e","a","s","e">>>> >>,
      response |-> <<"<diseases>">> ]

\* how_to_use: \bhow.*use\b  \bget.*started\b  \btutorial\b  \bhelp.*dashboard\b  \bguide\b
RuleHowToUse ==
    [ category |-> "how_to_use",
      patterns |-> << <<<<"h","o","w">>, <<"u","s","e">>>>,
                      <<<<"g","e","t">>, <<"s","t","a","r","t","e","d">>>>,
                      <<<<"t","u","t","o","r","i","a","l">>>>,
                      <<<<"h","e","l","p">>, <<"d","a","s","h","b","o","a","r","d">>>>,
                      <<<<"g","u","i","d","e">>>> >>,
      response |-> <<"<how_to_use>">> ]

\* greeting: \bhello\b  \bhi\b  \bhey\b  \bgreetings\b  \bgood.*morning\b  \bgood.*evening\b
RuleGreeting ==
    [ category |-> "greeting",
      patterns |-> << <<<<"h","e","l","l","o">>>>,
                      <<<<"h","i">>>>,
                      <<<<"h","e","y">>>>,
                      <<<<"g","r","e","e","t","i","n","g","s">>>>,
                      <<<<"g","o","o","d">>, <<"m","o","r","n","i","n","g">>>>,
                      <<<<"g","o","o","d">>, <<"e","v","e","n","i","n","g">>>> >>,
      response |-> <<"<greeting>">> ]

\* thanks: \bthank\b  \bthanks\b  \bappreciate\b  \bthank you\b
RuleThanks ==
    [ category |-> "thanks",
      patterns |-> << <<<<"t","h","a","n","k">>>>,
                      <<<<"t","h","a","n","k","s">>>>,
                      <<<<"a","p","p","r","e","c","i","a","t","e">>>>,
                      <<<<"t","h","a","n","k"," ","y","o","u">>>> >>,
      response |-> <<"<thanks>">> ]

\* goodbye: \bbye\b  \bgoodbye\b  \bsee you\b  \bsee ya\b
RuleGoodbye ==
    [ category |-> "goodbye",
      patterns |-> << <<<<"b","y","e">>>>,
                      <<<<"g","o","o","d","b","y","e">>>>,
                      <<<<"s","e","e"," ","y","o","u">>>>,
                      <<<<"s","e","e"," ","y","a">>>> >>,
      response |-> <<"<goodbye>">> ]

Rules == << RuleVqeWhat, RuleVqeHow, RuleVqeResultsCheck, RuleProteinFolding, RuleProteinSequenceCheck, RuleProteinStructure, RuleQuantumAdvantage, RuleQubits, RuleAnsatz, RuleOptimizer, RuleDiseases, RuleHowToUse, RuleGreeting, RuleThanks, RuleGoodbye >>

\* for pattern in data['patterns']: if re.search(pattern, query_lower)
RuleMatches(rule, q) == \E k \in 1..Len(rule.patterns) : Search(rule.patterns[k], q)

\* not context
NotContext(ctx) ==
    \/ ~ctx.given
    \/ ctx.current_protein.t = "absent" /\ ctx.vqe_results.t = "absent"

ResultsAvailable == <<"<VQE results are available. Check the Results page>">>
VqeHasBeenRun == <<"<VQE has been run. Visit the Results page>">>
NoResultsBlock == <<"<No VQE Results Available>">>
NoSequenceBlock == <<"<No Protein Sequence Loaded>">>

\* the strings the session stores for "no results" and "no sequence"
ResultsSentinel == <<"N","o","t"," ","r","u","n"," ","y","e","t">>


ProteinSentinel == <<"N","o","n","e">>

\* try: r  except: return fallback
Unguarded(r, fallback) == r

Guarded(r, fallback) == IF r.kind = "raise" THEN Return(fallback) ELSE r

\* str(v), which an object may make raise
StrOf(v) == IF v.t = "object" THEN Raise(<<"E","x","c","e","p","t","i","o","n">>) ELSE Return(Format(v))

_get_vqe_results(ctx) ==
    IF \/ NotContext(ctx)
       \/ ~Truthy(Get(ctx.vqe_results))
       \/ ctx.vqe_results = PyStr(ResultsSentinel)
    THEN Return(NoResultsBlock)
    ELSE Guarded(
           LET results_str == StrOf(ctx.vqe_results)
           IN  IF results_str.kind = "raise" THEN results_str
               ELSE IF Contains(results_str.text, <<"f","i","n","a","l","_","e","n","e","r","g","y">>)
               THEN Return(<<"<VQE Optimization Complete! Your Results:>">> \o results_str.text
                           \o <<"<What this means>">>)
               ELSE Return(ResultsAvailable),
           VqeHasBeenRun)

PreviewLimit == 50

\* s.replace(old, ''): the occurrences of old are removed left to right
RECURSIVE Remove(_, _)
Remove(s, old) ==
    IF s = <<>> THEN <<>>
    ELSE IF At(s, old, 1) THEN Remove(SubSeq(s, Len(old) + 1, Len(s)), old)
    ELSE <<s[1]>> \o Remove(SubSeq(s, 2, Len(s)), old)

\* the qubit estimate the sequence answer prints
QubitEstimateNoOffset(seq_len) == seq_len * 3

QubitEstimate(seq_len) == (seq_len - 1) * 3

_get_protein_sequence(ctx) ==
    IF \/ NotContext(ctx)
       \/ ~Truthy(Get(ctx.current_protein))
       \/ ctx.current_protein = PyStr(ProteinSentinel)
    THEN Return(NoSequenceBlock)
    ELSE IF ctx.current_protein.t # "str" THEN Raise(<<"T","y","p","e","E","r","r","o","r">>)
    ELSE LET seq == ctx.current_protein.s
             seq_display == IF Len(seq) <= PreviewLimit THEN seq
                            ELSE Take(seq, PreviewLimit) \o <<".",".",".">>
             seq_len == Len(Remove(seq, <<".",".",".">>))
         IN  Return(<<"<Current Protein Sequence Loaded>">> \o seq_display
                    \o <<"<Length: >">> \o Format(PyInt(seq_len))
                    \o <<"< amino acids. Estimated Qubits: ~>">> \o Format(PyInt(QubitEstimate(seq_len)))
                    \o <<"< qubits. Status: Ready for VQE simulation>">>)

ContainsAny(q, words) == \E w \in words : Contains(q, w)

GenericMenu == <<"<I can help you with many topics! Popular Questions>">>

EnergyBlock == <<"<About Energy in Protein Folding>">>
ExportBlock == <<"<Exporting Results>">>
PerformanceBlock == <<"<VQE Performance & Runtime>">>

EnergyKeywords == { <<"e","n","e","r","g","y">>, <<"h","a","r","t","r","e","e">>, <<"c","o","n","v","e","r","g","e","n","c","e">>, <<"g","r","o","u","n","d"," ","s","t","a","t","e">> }
ExportKeywords == { <<"d","o","w","n","l","o","a","d">>, <<"e","x","p","o","r","t">>, <<"s","a","v","e">>, <<"p","d","b"," ","f","i","l","e">> }
PerformanceKeywords == { <<"f","a","s","t">>, <<"s","l","o","w">>, <<"s","p","e","e","d">>, <<"t","i","m","e">>,
                         <<"p","e","r","f","o","r","m","a","n","c","e">>, <<"r","u","n","t","i","m","e">> }

_get_fallback_export_first(q, ctx) ==
    IF ContainsAny(q, ExportKeywords) THEN Return(ExportBlock)
    ELSE IF ContainsAny(q, EnergyKeywords) THEN Return(EnergyBlock)
    ELSE IF ContainsAny(q, PerformanceKeywords) THEN Return(PerformanceBlock)
    ELSE Return(GenericMenu)

_get_fallback(q, ctx) ==
    IF ContainsAny(q, EnergyKeywords) THEN Return(EnergyBlock)
    ELSE IF ContainsAny(q, ExportKeywords) THEN Return(ExportBlock)
    ELSE IF ContainsAny(q, PerformanceKeywords) THEN Return(PerformanceBlock)
    ELSE Return(GenericMenu)

\* What get_response does once the rule with template response_template matched
Resolve(response_template, ctx) ==
    IF response_template = <<"C","O","N","T","E","X","T","_","V","Q","E","_","R","E","S","U","L","T","S">> THEN _get_vqe_results(ctx)
    ELSE IF response_template = <<"C","O","N","T","E","X","T","_","P","R","O","T","E","I","N","_","S","E","Q","U","E","N","C","E">> THEN _get_protein_sequence(ctx)
    ELSE Return(response_template)

\* for category, data in self.patterns.items(): the order the rules are tried in
RuleOrderReversed == [i \in 1..Len(Rules) |-> Len(Rules) + 1 - i]

RuleOrder == [i \in 1..Len(Rules) |-> i]

\* What get_response does when the loop over the rules ends without a match
NoFallback(q, ctx) == ReturnNone

Unmatched(q, ctx) == _get_fallback(q, ctx)

\* the loop of get_response, from the i-th rule tried
RECURSIVE ScanRules(_, _, _)
ScanRules(q, ctx, i) ==
    IF i > Len(RuleOrder) THEN Unmatched(q, ctx)
    ELSE IF RuleMatches(Rules[RuleOrder[i]], q) THEN Resolve(Rules[RuleOrder[i]].response, ctx)
    ELSE ScanRules(q, ctx, i + 1)

NormalizeNoLower(q0) == Strip(q0)

\* query.lower().strip()
Normalize(q0) == Strip(Lower(q0))

BuiltInChatbot_get_response(q0, ctx) == ScanRules(Normalize(q0), ctx, 1)


-----------------------------------------------------------------------------
\* protein_folding_app.py: the Streamlit session.  Every event of the user
\* (a button, a chat input) makes Streamlit run the script once from top to
\* bottom: the handler of the widget, then the update of the chat context,
\* then the chat widget.  An action below is one such run.

UpperChar(c) ==
    IF \E i \in 1..Len(LowerCase) : LowerCase[i] = c
    THEN UpperCase[CHOOSE i \in 1..Len(LowerCase) : LowerCase[i] = c]
    ELSE c

\* str.upper()
Upper(s) == [i \in 1..Len(s) |-> UpperChar(s[i])]

\* str.split('\n')
RECURSIVE SplitLines(_)
SplitLines(s) ==
    IF \A i \in 1..Len(s) : s[i] # "\n" THEN <<s>>
    ELSE LET p == CHOOSE i \in 1..Len(s) : s[i] = "\n" /\ \A j \in 1..(i - 1) : s[j] # "\n"
         IN  <<SubSeq(s, 1, p - 1)>> \o SplitLines(SubSeq(s, p + 1, Len(s)))

\* ''.join(lines)
RECURSIVE Join(_)
Join(lines) == IF lines = <<>> THEN <<>> ELSE Head(lines) \o Join(Tail(lines))

AMINO_ACIDS == <<"A","C","D","E","F","G","H","I","K","L","M","N","P","Q","R","S","T","V","W","Y">>

validate_sequence(sequence) ==
    LET stripped == Strip(Upper(sequence))
    IN  \A i \in 1..Len(stripped) : \E k \in 1..Len(AMINO_ACIDS) : AMINO_ACIDS[k] = stripped[i]

\* What requests.get did: it raised, or it returned a response
HttpResponse(status_code, text) == [raised |-> FALSE, status_code |-> status_code, text |-> text]
HttpError == [raised |-> TRUE, status_code |-> 0, text |-> <<>>]
NoRequest == [raised |-> FALSE, status_code |-> 0, text |-> <<>>]

fetch_from_pdb(response) ==
    IF response.raised THEN PyNone
    ELSE IF response.status_code = 200
    THEN PyStr(Join(Tail(SplitLines(Strip(response.text)))))
    ELSE PyNone

fetch_ignoring_status(response) ==
    IF response.raised THEN PyNone
    ELSE PyStr(Join(Tail(SplitLines(Strip(response.text)))))

fetch_from_uniprot(response) ==
    IF response.raised THEN PyNone
    ELSE IF response.status_code = 200
    THEN PyStr(Join(Tail(SplitLines(Strip(response.text)))))
    ELSE PyNone

\* A list of floats is held by its length and its last element
FloatList(len, last) == [len |-> len, last |-> last]
EmptyList == FloatList(0, 0)

\* The dict run_vqe_simulation returns (energies in hundredths of a Hartree),
\* None, or the exception raised instead
VqeDict(final_energy, num_qubits, iterations, optimizer, ansatz) ==
    [t |-> "dict", final_energy |-> final_energy,
     energy_history |-> FloatList(iterations, final_energy), num_qubits |-> num_qubits,
     iterations |-> iterations, optimizer |-> optimizer, ansatz |-> ansatz]
VqeNone ==
    [t |-> "none", final_energy |-> 0, energy_history |-> EmptyList, num_qubits |-> 0,
     iterations |-> 0, optimizer |-> <<>>, ansatz |-> <<>>]
VqeRaised == [VqeNone EXCEPT !.t = "raise"]

\* The dict run_classical_simulation returns, or None
ClassicalDict(final_energy) == [t |-> "dict", final_energy |-> final_energy]
ClassicalNone == [t |-> "none", final_energy |-> 0]

MaxTerms == 10

\* construct_hamiltonian: the number of Pauli terms and of qubits;
\* SparsePauliOp.from_list raises on an empty list of terms
construct_hamiltonian(sequence) ==
    LET n == Len(sequence)
        num_qubits == (n - 1) * 3
        range == IF num_qubits - 1 < MaxTerms THEN num_qubits - 1 ELSE MaxTerms
        pauli_list == IF range > 0 THEN 2 * range ELSE 0
    IN  [raised |-> pauli_list = 0, num_qubits |-> num_qubits]

\* final_energy is energy_history[-1], a random number
run_vqe_simulation_defaults(sequence, ansatz_type, optimizer_type, max_iterations, final_energy) ==
    LET hamiltonian == construct_hamiltonian(sequence)
    IN  IF hamiltonian.raised THEN VqeRaised
        ELSE VqeDict(final_energy, hamiltonian.num_qubits, 100,
                     optimizer_type, ansatz_type)

run_vqe_simulation(sequence, ansatz_type, optimizer_type, max_iterations, final_energy) ==
    LET hamiltonian == construct_hamiltonian(sequence)
    IN  IF hamiltonian.raised THEN VqeRaised
        ELSE VqeDict(final_energy, hamiltonian.num_qubits, max_iterations,
                     optimizer_type, ansatz_type)

\* energy_penalty is a random number
run_classical_simulation(sequence, vqe_energy, energy_penalty) ==
    ClassicalDict(vqe_energy + energy_penalty)

\* str(x) for a float x held in hundredths
FloatStr(x) ==
    LET a == IF x < 0 THEN -x ELSE x
    IN  (IF x < 0 THEN <<"-">> ELSE <<>>) \o Decimal(a \div 100) \o <<".">>
        \o <<Digits[((a \div 10) % 10) + 1], Digits[(a % 10) + 1]>>

\* str(results) for the dict of run_vqe_simulation
ResultsStr(results) ==
    <<"{","'","f","i","n","a","l","_","e","n","e","r","g","y","'",":"," ">> \o FloatStr(results.final_energy)
    \o <<","," ","'","e","n","e","r","g","y","_","h","i","s","t","o","r","y","'",":"," ","[">> \o <<"<...>">> \o FloatStr(results.energy_history.last)
    \o <<"]",","," ","'","n","u","m","_","q","u","b","i","t","s","'",":"," ">> \o Decimal(results.num_qubits)
    \o <<","," ","'","i","t","e","r","a","t","i","o","n","s","'",":"," ">> \o Decimal(results.iterations)
    \o <<","," ","'","o","p","t","i","m","i","z","e","r","'",":"," ","'">> \o results.optimizer
    \o <<"'",","," ","'","a","n","s","a","t","z","'",":"," ","'">> \o results.ansatz \o <<"'","}">>

ContextPreviewLimit == 50

\* the chat context as the session initialisation creates it
InitialChatContext == [given |-> TRUE, current_protein |-> PyNone, vqe_results |-> PyNone]

ChatContextStale(ctx, sequence, results) == ctx

\* st.session_state.chat_context.update({...})
ChatContextUpdate(ctx, sequence, results) ==
    [ctx EXCEPT
        !.vqe_results = IF results.t = "dict" THEN PyStr(ResultsStr(results))
                        ELSE PyStr(<<"N","o","t"," ","r","u","n"," ","y","e","t">>),
        !.current_protein =
            IF sequence # <<>> /\ Len(sequence) > ContextPreviewLimit
            THEN PyStr(Take(sequence, ContextPreviewLimit) \o <<".",".",".">>)
            ELSE IF sequence # <<>> THEN PyStr(sequence) ELSE PyStr(<<"N","o","n","e">>)]

MessageAssistant(role, content) == [role |-> "assistant", content |-> content]

Message(role, content) == [role |-> role, content |-> content]

Prepended(history, message) == <<message>> \o history

\* st.session_state.chat_history.append(message)
Appended(history, message) == Append(history, message)

\* 'config' not in st.session_state
NoConfig == [ansatz |-> <<>>, optimizer |-> <<>>, max_iter |-> 0]

-----------------------------------------------------------------------------
\* Inputs of the /chat endpoint and outcomes of the remote calls

EmptyContext == [given |-> TRUE, current_protein |-> Absent, vqe_results |-> Absent]
NoContext == [given |-> FALSE, current_protein |-> Absent, vqe_results |-> Absent]

Selectors == { PyNone, PyStr(<<>>), PyStr(<<"G","e","m","i","n","i"," ","(","G","o","o","g","l","e",")">>),
               PyStr(<<"C","h","a","t","G","P","T"," ","(","O","p","e","n","A","I",")">>), PyStr(<<"L","o","c","a","l">>) }

BackendQueries == { <<"W","h","a","t"," ","i","s"," ","V","Q","E","?">>, <<"m","y"," ","p","r","o","t","e","i","n">>, <<"h","i">> }

BackendContexts ==
    { NoContext,
      [EmptyContext EXCEPT !.current_protein = PyStr(<<"N","o","n","e">>)],
      [EmptyContext EXCEPT !.current_protein = PyStr(<<"A","C","D","E">>)] }

\* an error text longer than the generic prefix quotes
LongError == [i \in 1..PrefixLimit |-> "x"]

ErrorTexts == { <<"Q","u","o","t","a"," ","e","x","c","e","e","d","e","d">>, <<"H","T","T","P"," ","4","2","9">>, <<"4","0","0"," ","b","a","d"," ","k","e","y">>, <<"t","i","m","e","d"," ","o","u","t">>,
               <<"4","2","9"," ","a","f","t","e","r"," ","4","0","0">>, LongError }

OpenAIOutcomes ==
    { Answer("message_object", <<"A","1">>), Answer("content_none", <<>>),
      Answer("message_dict", <<"A","2">>), Answer("dict_content_none", <<>>),
      Answer("no_message", <<>>), Answer("no_choices", <<>>) }
    \cup { Failure(e) : e \in ErrorTexts }

GeminiFirstOutcomes == { Answer("text", <<"G","1">>) } \cup { Failure(e) : e \in ErrorTexts }
GeminiSecondOutcomes == { Answer("text", <<"G","2">>), Failure(<<"H","T","T","P"," ","4","2","9">>), Failure(<<"t","i","m","e","d"," ","o","u","t">>) }

\* Inputs of BuiltInChatbot.get_response

MaxWords == 2

Vocabulary == { <<"w","h","a","t">>, <<"v","q","e">>, <<"i","s">>, <<"r","e","s","u","l","t">>, <<"r","e","s","u","l","t","s">>,
                <<"e","n","e","r","g","y">>, <<"s","h","o","w">>, <<"s","e","q","u","e","n","c","e">>, <<"h","a","r","t","r","e","e">>, <<"s","a","v","e">> }

\* the queries of at most n words of the vocabulary, one space between words
RECURSIVE Phrases(_)
Phrases(n) ==
    IF n = 0 THEN { <<>> }
    ELSE LET shorter == Phrases(n - 1)
         IN  shorter \cup { (IF p = <<>> THEN <<>> ELSE p \o <<" ">>) \o w :
                              p \in shorter, w \in Vocabulary }

WhatIsVQE == <<"W","h","a","t"," ","i","s"," ","V","Q","E","?">>
ShowMeMyResults == <<"s","h","o","w"," ","m","e"," ","m","y"," ","r","e","s","u","l","t","s">>

ExampleQueries == { WhatIsVQE, ShowMeMyResults, <<" "," ","S","h","o","w"," ","m","y"," ","R","E","S","U","L","T"," ","\n">>,
                    <<"w","h","a","t","\n","v","q","e">>, <<"w","h","a","t","e","v","e","r">>, <<"m","y"," ","p","r","o","t","e","i","n">>,
                    <<"s","a","v","e"," ","t","i","m","e">>, <<"r","u","n","t","i","m","e">> }

\* the example questions that the answers themselves propose
QuickStarts ==
    { <<"W","h","a","t"," ","i","s"," ","V","Q","E","?">>, <<"H","o","w"," ","d","o"," ","p","r","o","t","e","i","n","s"," ","f","o","l","d","?">>, <<"S","h","o","w"," ","m","e"," ","m","y"," ","r","e","s","u","l","t","s">>,
      <<"W","h","i","c","h"," ","o","p","t","i","m","i","z","e","r"," ","s","h","o","u","l","d"," ","I"," ","u","s","e","?">>, <<"H","e","l","p"," ","m","e"," ","g","e","t"," ","s","t","a","r","t","e","d">> }

ResultsSuggestions ==
    { <<"W","h","a","t"," ","i","s"," ","g","r","o","u","n","d"," ","s","t","a","t","e"," ","e","n","e","r","g","y","?">>, <<"H","o","w"," ","a","c","c","u","r","a","t","e"," ","i","s"," ","t","h","i","s","?">>,
      <<"W","h","a","t","'","s"," ","n","e","x","t","?">> }

SequenceSuggestions ==
    { <<"W","h","i","c","h"," ","a","n","s","a","t","z"," ","s","h","o","u","l","d"," ","I"," ","u","s","e","?">>, <<"W","h","i","c","h"," ","o","p","t","i","m","i","z","e","r"," ","i","s"," ","b","e","s","t","?">>,
      <<"H","o","w"," ","m","a","n","y"," ","i","t","e","r","a","t","i","o","n","s","?">> }

PopularQuestions ==
    { <<"W","h","a","t"," ","i","s"," ","V","Q","E","?">>, <<"H","o","w"," ","d","o","e","s"," ","V","Q","E"," ","w","o","r","k","?">>, <<"W","h","y"," ","u","s","e"," ","q","u","a","n","t","u","m"," ","c","o","m","p","u","t","i","n","g","?">>,
      <<"H","o","w"," ","m","a","n","y"," ","q","u","b","i","t","s"," ","n","e","e","d","e","d","?">>,
      <<"H","o","w"," ","d","o"," ","p","r","o","t","e","i","n","s"," ","f","o","l","d","?">>, <<"W","h","a","t"," ","i","s"," ","p","r","o","t","e","i","n"," ","s","t","r","u","c","t","u","r","e","?">>,
      <<"S","h","o","w"," ","m","e"," ","m","y"," ","p","r","o","t","e","i","n">>,
      <<"W","h","i","c","h"," ","a","n","s","a","t","z"," ","s","h","o","u","l","d"," ","I"," ","u","s","e","?">>, <<"W","h","i","c","h"," ","o","p","t","i","m","i","z","e","r"," ","i","s"," ","b","e","s","t","?">>,
      <<"H","o","w"," ","m","a","n","y"," ","i","t","e","r","a","t","i","o","n","s","?">>,
      <<"W","h","a","t"," ","d","i","s","e","a","s","e","s"," ","a","r","e"," ","c","a","u","s","e","d"," ","b","y"," ","m","i","s","f","o","l","d","i","n","g","?">>, <<"T","e","l","l"," ","m","e"," ","a","b","o","u","t"," ","A","l","z","h","e","i","m","e","r","'","s">>,
      <<"H","o","w"," ","d","o"," ","I"," ","u","s","e"," ","t","h","i","s","?">>, <<"G","e","t","t","i","n","g"," ","s","t","a","r","t","e","d"," ","g","u","i","d","e">>, <<"S","h","o","w"," ","m","e"," ","m","y"," ","r","e","s","u","l","t","s">> }

AdvertisedQuestions ==
    QuickStarts \cup ResultsSuggestions \cup SequenceSuggestions \cup PopularQuestions

RouterQueries == Phrases(MaxWords) \cup ExampleQueries \cup AdvertisedQuestions

NotRunYet == [EmptyContext EXCEPT !.vqe_results = PyStr(<<"N","o","t"," ","r","u","n"," ","y","e","t">>)]

\* a sequence of n amino acids
AminoSeq(n) == [i \in 1..n |-> AMINO_ACIDS[((i - 1) % Len(AMINO_ACIDS)) + 1]]

MaxOver == 2

\* lengths of the sequences tried: short ones, and from the preview limit on
SequenceLengths == {1, 2} \cup (PreviewLimit..(PreviewLimit + MaxOver))

RouterContexts ==
    { [EmptyContext EXCEPT !.current_protein = PyStr(AminoSeq(n))] : n \in SequenceLengths }
    \cup
    { [EmptyContext EXCEPT !.vqe_results = PyStr(<<"f","i","n","a","l","_","e","n","e","r","g","y",":"," ","?","?","?">>)],
      [EmptyContext EXCEPT !.vqe_results = PyObject],
      [EmptyContext EXCEPT !.vqe_results = PyStr(<<"N","o","n","e">>),
                           !.current_protein = PyStr(<<"N","o","t"," ","r","u","n"," ","y","e","t">>)] }
    \cup
    { NoContext,
      EmptyContext,
      NotRunYet,
      [EmptyContext EXCEPT !.vqe_results = PyStr(<<"N","o","t"," ","r","u","n"," ","y","e","t">>),
                           !.current_protein = PyStr(<<"N","o","n","e">>)],
      [EmptyContext EXCEPT !.vqe_results = PyNone, !.current_protein = PyNone],
      [EmptyContext EXCEPT !.vqe_results = PyStr(<<>>), !.current_protein = PyStr(<<"A","C","D","E">>)],
      [EmptyContext EXCEPT !.vqe_results = PyStr(<<"{","'","f","i","n","a","l","_","e","n","e","r","g","y","'",":"," ","-","4",".","9","}">>),
                           !.current_protein = PyStr(<<"A","C","D","E">>)],
      [EmptyContext EXCEPT !.vqe_results = PyStr(<<"d","o","n","e">>)],
      [EmptyContext EXCEPT !.vqe_results = PyInt(7), !.current_protein = PyInt(5)] }

-----------------------------------------------------------------------------
\* chatbot_api.chat and the steps of ai_backends.get_response

\* the session before the first event
SessionIdle ==
    /\ protein_sequence = <<>>
    /\ vqe_results = VqeNone
    /\ energy_history = EmptyList
    /\ classical_results = ClassicalNone
    /\ chat_history = <<>>
    /\ config = NoConfig
    /\ chat_context = ChatContextUpdate(InitialChatContext, <<>>, VqeNone)
    /\ http = NoRequest
    /\ vqe_input = <<>>
    /\ routed_query = <<>>
    /\ routed_context = NoContext

GeminiIdle ==
    /\ gmodel = DefaultGeminiModel
    /\ gfirst = Failure(<<>>)
    /\ gsecond = Failure(<<>>)
    /\ gresult = NoResult

RouterIdle ==
    /\ rquery = <<>>
    /\ rcontext = NoContext
    /\ rresponse = NoResult

Init ==
    /\ client \in BOOLEAN
    /\ GEMINI_API_KEY \in BOOLEAN
    /\ pc = "idle"
    /\ model_choice = PyNone
    /\ query = <<>>
    /\ context = EmptyContext
    /\ calls = <<>>
    /\ errs = <<>>
    /\ result = NoResult
    /\ RouterIdle
    /\ SessionIdle
    /\ GeminiIdle

\* POST /chat: get_response(req.model, req.query, req.context or {}) is entered
ChatRequest ==
    /\ pc = "idle"
    /\ \E m \in Selectors, q \in BackendQueries, c \in BackendContexts :
          /\ model_choice' = m
          /\ query' = q
          /\ context' = IF c.given /\ (c.current_protein.t # "absent" \/ c.vqe_results.t # "absent")
                        THEN c ELSE EmptyContext
    /\ pc' = "first"
    /\ calls' = <<>>
    /\ errs' = <<>>
    /\ result' = NoResult
    /\ UNCHANGED <<client, GEMINI_API_KEY, routerVars, sessionVars, geminiVars>>

AfterCallAlwaysNext(stage, r) ==
    IF stage = "first" /\ SecondProvider(Route(model_choice)) # "none" THEN "second"
    ELSE "local"

\* Where get_response goes after the call at `stage` returned r
AfterCall(stage, r) ==
    IF r.kind # "raise" THEN "done"
    ELSE IF stage = "first" /\ SecondProvider(Route(model_choice)) # "none" THEN "second"
    ELSE "local"

Attempted(name, r) ==
    /\ calls' = Append(calls, name)
    /\ pc' = AfterCall(pc, r)
    /\ IF r.kind = "raise"
       THEN errs' = Append(errs, r.text) /\ UNCHANGED result
       ELSE result' = r /\ UNCHANGED errs
    /\ UNCHANGED <<client, GEMINI_API_KEY, model_choice, query, context, routerVars, sessionVars, geminiVars>>

\* try: return get_gemini_response(query, context)
AttemptGemini ==
    /\ pc \in {"first", "second"}
    /\ ProviderAt(Route(model_choice), pc) = "gemini"
    /\ \E first \in GeminiFirstOutcomes, second \in GeminiSecondOutcomes :
          Attempted("gemini", get_gemini_response(DefaultGeminiModel, first, second))

\* try: return get_chatgpt_response(query, context)
AttemptChatGPT ==
    /\ pc \in {"first", "second"}
    /\ ProviderAt(Route(model_choice), pc) = "chatgpt"
    /\ \E create \in OpenAIOutcomes :
          Attempted("chatgpt", get_chatgpt_response(create))

\* the last except handler: return <prefix> + local_kb_response(query, context)
LocalFallback ==
    /\ pc = "local"
    /\ calls' = Append(calls, "local")
    /\ result' = Return(DiagnosticPrefix(Route(model_choice), ReportedError(errs)) \o LocalAnswer(query, context))
    /\ pc' = "done"
    /\ UNCHANGED <<client, GEMINI_API_KEY, model_choice, query, context, errs, routerVars, sessionVars, geminiVars>>

\* chat returns {"response": resp}
ChatReturn ==
    /\ pc = "done"
    /\ pc' = "idle"
    /\ UNCHANGED <<client, GEMINI_API_KEY, model_choice, query, context, calls, errs, result, routerVars, sessionVars, geminiVars>>

Next ==
    \/ ChatRequest
    \/ AttemptGemini
    \/ AttemptChatGPT
    \/ LocalFallback
    \/ ChatReturn

Spec == Init /\ [][Next]_vars


-----------------------------------------------------------------------------
\* BuiltInChatbot.get_response as a function of its arguments

InitRouter ==
    /\ client = FALSE
    /\ GEMINI_API_KEY = FALSE
    /\ pc = "idle"
    /\ model_choice = PyNone
    /\ query = <<>>
    /\ context = EmptyContext
    /\ calls = <<>>
    /\ errs = <<>>
    /\ result = NoResult
    /\ rquery \in RouterQueries
    /\ rcontext \in RouterContexts
    /\ rresponse = NoResult
    /\ SessionIdle
    /\ GeminiIdle

\* response = builtin_chatbot.get_response(user_input, chat_context)
RouteQuery ==
    /\ rresponse = NoResult
    /\ rresponse' = BuiltInChatbot_get_response(rquery, rcontext)
    /\ UNCHANGED <<backendVars, rquery, rcontext, sessionVars, geminiVars>>

NextRouter == RouteQuery

SpecRouter == InitRouter /\ [][NextRouter]_vars

\* get_gemini_response as a function of its model argument and of what the
\* two remote calls do
GeminiModels == { DefaultGeminiModel, FallbackGeminiModel }

InitGemini ==
    /\ client = FALSE
    /\ GEMINI_API_KEY \in BOOLEAN
    /\ pc = "idle"
    /\ model_choice = PyNone
    /\ query = <<>>
    /\ context = EmptyContext
    /\ calls = <<>>
    /\ errs = <<>>
    /\ result = NoResult
    /\ RouterIdle
    /\ SessionIdle
    /\ gmodel \in GeminiModels
    /\ gfirst \in GeminiFirstOutcomes
    /\ gsecond \in GeminiSecondOutcomes
    /\ gresult = NoResult

CallGemini ==
    /\ gresult = NoResult
    /\ gresult' = get_gemini_response(gmodel, gfirst, gsecond)
    /\ UNCHANGED <<backendVars, routerVars, sessionVars, gmodel, gfirst, gsecond>>

NextGemini == CallGemini

SpecGemini == InitGemini /\ [][NextGemini]_vars


-----------------------------------------------------------------------------
\* Inputs of the session

\* the options of the 'Input Method' radio
InputMethods == { "Manual Entry", "Load from Dataset", "UniProt ID" }

\* the branch of the Home page that serves input method m
HomeBranch(m) ==
    IF m = "Manual Entry" THEN "manual"
    ELSE IF m = "Load from Dataset" THEN "dataset"
    ELSE IF m = "PDB ID" THEN "pdb"
    ELSE "uniprot"

\* what the user types into the text area before 'Validate Sequence'
ManualEntries == { <<>>, <<"a">>, <<"A","1">> }

\* the Sequence column of the sample dataset
DatasetSequences == { AminoSeq(ContextPreviewLimit), <<"A","C","D","X">> }

FastaHeader == <<">", "s", "p", "\n">>

\* what the UniProt server answers
HttpResponses ==
    { HttpError,
      HttpResponse(404, <<"N","o","t"," ","F","o","u","n","d","\n","A","C">>),
      HttpResponse(200, FastaHeader \o <<"A","U","X","\n">>),
      HttpResponse(200, FastaHeader \o AminoSeq(ContextPreviewLimit) \o <<"\n">>
                        \o SubSeq(AminoSeq(ContextPreviewLimit + 1),
                                  ContextPreviewLimit + 1, ContextPreviewLimit + 1)
                        \o <<"\n">>) }

\* what 'Save Configuration' finds in the widgets
Configs ==
    { [ansatz |-> <<"E","f","f","i","c","i","e","n","t","S","U","2">>, optimizer |-> <<"C","O","B","Y","L","A">>, max_iter |-> 100],
      [ansatz |-> <<"T","w","o","L","o","c","a","l">>, optimizer |-> <<"S","L","S","Q","P">>, max_iter |-> 50] }

\* outcomes of the random numbers, in hundredths of a Hartree
Energies == {-503}
Penalties == {80, 150}

ChatInputs == { <<"m","y"," ","p","r","o","t","e","i","n">>, <<"s","h","o","w"," ","m","y"," ","r","e","s","u","l","t">> }

MaxChat == 4

-----------------------------------------------------------------------------
\* The session, one action per script run

\* what an event that sends no request, runs no simulation and routes no
\* query leaves in the history variables
Quiet ==
    /\ http' = NoRequest
    /\ vqe_input' = <<>>
    /\ routed_query' = <<>>
    /\ routed_context' = NoContext

\* Home, Manual Entry: 'Validate Sequence' is clicked
ValidateSequence ==
    \E input_method \in InputMethods, sequence \in ManualEntries :
        /\ HomeBranch(input_method) = "manual"
        /\ protein_sequence' = IF validate_sequence(sequence) THEN sequence
                               ELSE protein_sequence
        /\ chat_context' = ChatContextUpdate(chat_context, protein_sequence', vqe_results)
        /\ Quiet
        /\ UNCHANGED <<backendVars, routerVars, geminiVars, vqe_results, energy_history,
                       classical_results, chat_history, config>>

\* Home, Load from Dataset: 'Use this sequence' is clicked
UseThisSequence ==
    \E input_method \in InputMethods, seq \in DatasetSequences :
        /\ HomeBranch(input_method) = "dataset"
        /\ protein_sequence' = IF validate_sequence(seq) THEN seq ELSE protein_sequence
        /\ chat_context' = ChatContextUpdate(chat_context, protein_sequence', vqe_results)
        /\ Quiet
        /\ UNCHANGED <<backendVars, routerVars, geminiVars, vqe_results, energy_history,
                       classical_results, chat_history, config>>

\* Home, PDB ID: 'Fetch from PDB' is clicked.  No option of the radio leads
\* to this branch, so it is no step of the session.
FetchFromPDB ==
    \E input_method \in InputMethods, response \in HttpResponses :
        LET sequence == fetch_from_pdb(response)
        IN  /\ HomeBranch(input_method) = "pdb"
            /\ protein_sequence' = IF Truthy(sequence) THEN sequence.s ELSE protein_sequence
            /\ chat_context' = ChatContextUpdate(chat_context, protein_sequence', vqe_results)
            /\ http' = response
            /\ vqe_input' = <<>>
            /\ routed_query' = <<>>
            /\ routed_context' = NoContext
            /\ UNCHANGED <<backendVars, routerVars, geminiVars, vqe_results, energy_history,
                           classical_results, chat_history, config>>

\* Home, UniProt ID: 'Fetch from UniProt' is clicked
FetchFromUniProt ==
    \E input_method \in InputMethods, response \in HttpResponses :
        LET sequence == fetch_from_uniprot(response)
        IN  /\ HomeBranch(input_method) = "uniprot"
            /\ protein_sequence' = IF Truthy(sequence) THEN sequence.s ELSE protein_sequence
            /\ chat_context' = ChatContextUpdate(chat_context, protein_sequence', vqe_results)
            /\ http' = response
            /\ vqe_input' = <<>>
            /\ routed_query' = <<>>
            /\ routed_context' = NoContext
            /\ UNCHANGED <<backendVars, routerVars, geminiVars, vqe_results, energy_history,
                           classical_results, chat_history, config>>

\* Configuration: 'Save Configuration' is clicked
SaveConfiguration ==
    /\ protein_sequence # <<>>
    /\ \E saved \in Configs : config' = saved
    /\ chat_context' = ChatContextUpdate(chat_context, protein_sequence, vqe_results)
    /\ Quiet
    /\ UNCHANGED <<backendVars, routerVars, geminiVars, protein_sequence, vqe_results, energy_history,
                   classical_results, chat_history>>

\* Run VQE: 'Start VQE Optimization' is clicked.  An exception of the
\* simulation ends the script run where it is raised.
StartVQE ==
    /\ protein_sequence # <<>>
    /\ config # NoConfig
    /\ \E final_energy \in Energies, energy_penalty \in Penalties :
        LET results == run_vqe_simulation(protein_sequence, config.ansatz,
                                          config.optimizer, config.max_iter, final_energy)
        IN  IF results.t = "raise"
            THEN UNCHANGED <<vqe_results, energy_history, classical_results, chat_context>>
            ELSE /\ classical_results' = run_classical_simulation(
                                             protein_sequence, results.final_energy,
                                             energy_penalty)
                 /\ vqe_results' = results
                 /\ energy_history' = results.energy_history
                 /\ chat_context' = ChatContextUpdate(chat_context, protein_sequence,
                                                      vqe_results')
    /\ http' = NoRequest
    /\ vqe_input' = protein_sequence
    /\ routed_query' = <<>>
    /\ routed_context' = NoContext
    /\ UNCHANGED <<backendVars, routerVars, geminiVars, protein_sequence, chat_history, config>>

\* the chat input is submitted: the script run it triggers, and the rerun
\* that st.rerun() asks for
ChatSubmit ==
    /\ Len(chat_history) + 2 <= MaxChat
    /\ \E user_input \in ChatInputs :
        /\ chat_context' = ChatContextUpdate(chat_context, protein_sequence, vqe_results)
        /\ LET response == BuiltInChatbot_get_response(user_input, chat_context')
               asked == Appended(chat_history, Message("user", PyStr(user_input)))
           IN  chat_history' =
                   IF response.kind = "raise" THEN asked
                   ELSE Appended(asked, Message("assistant",
                                     IF response.kind = "str" THEN PyStr(response.text)
                                     ELSE PyNone))
        /\ routed_query' = user_input
        /\ routed_context' = chat_context'
    /\ http' = NoRequest
    /\ vqe_input' = <<>>
    /\ UNCHANGED <<backendVars, routerVars, geminiVars, protein_sequence, vqe_results, energy_history,
                   classical_results, config>>

\* 'Clear Chat' is clicked
ClearChat ==
    /\ chat_history' = <<>>
    /\ chat_context' = ChatContextUpdate(chat_context, protein_sequence, vqe_results)
    /\ Quiet
    /\ UNCHANGED <<backendVars, routerVars, geminiVars, protein_sequence, vqe_results, energy_history,
                   classical_results, config>>

InitSession ==
    /\ client = FALSE
    /\ GEMINI_API_KEY = FALSE
    /\ pc = "idle"
    /\ model_choice = PyNone
    /\ query = <<>>
    /\ context = EmptyContext
    /\ calls = <<>>
    /\ errs = <<>>
    /\ result = NoResult
    /\ RouterIdle
    /\ SessionIdle
    /\ GeminiIdle

NextSession ==
    \/ ValidateSequence
    \/ UseThisSequence
    \/ FetchFromUniProt
    \/ SaveConfiguration
    \/ StartVQE
    \/ ChatSubmit
    \/ ClearChat

SpecSession == InitSession /\ [][NextSession]_vars
-----------------------------------------------------------------------------
\* Properties of ai_backends.get_response (checked under Spec)

IsPrefix(s, t) == Len(s) <= Len(t) /\ SubSeq(t, 1, Len(s)) = s

EndsWith(s, suffix) ==
    /\ Len(suffix) <= Len(s)
    /\ SubSeq(s, Len(s) - Len(suffix) + 1, Len(s)) = suffix

Called(name) == \E i \in 1..Len(calls) : calls[i] = name

OtherProvider(name) == IF name = "gemini" THEN "chatgpt" ELSE "gemini"

\* the error text is of the quota type
QuotaType(e) == Contains(Lower(e), <<"q","u","o","t","a">>) \/ Contains(e, <<"4","2","9">>)

\* C1 as stated: whichever provider the selector names, the named provider is
\* called first, the other provider second if the first failed, and the local
\* answer is produced only as the third strategy, after both providers failed.
C1_EitherSelectorTriesBoth ==
    Route(model_choice) \in {"gemini", "chatgpt"} =>
        /\ IsPrefix(calls, <<Route(model_choice), OtherProvider(Route(model_choice)), "local">>)
        /\ pc # "local" \/ Len(calls) = 2

\* C1 amended: with the 'chatgpt' selector OpenAI is called first, Gemini
\* second if OpenAI failed, and the local answer comes only after both failed;
\* with the 'gemini' selector Gemini is called first and, if it failed, the
\* local answer comes next: OpenAI is never called.
C1_SelectorOrder ==
    /\ Route(model_choice) = "chatgpt" =>
          /\ IsPrefix(calls, <<"chatgpt", "gemini", "local">>)
          /\ Len(calls) = 1 /\ Len(errs) = 1 => pc = "second"
          /\ pc = "local" \/ Called("local") => Len(errs) = 2
    /\ Route(model_choice) = "gemini" =>
          /\ IsPrefix(calls, <<"gemini", "local">>)
          /\ Len(calls) = 1 /\ Len(errs) = 1 => pc = "local"
          /\ pc = "local" \/ Called("local") => Len(errs) = 1

C1_Witness ==
    /\ pc = "done"
    /\ Route(model_choice) = "gemini"
    /\ calls = <<"gemini", "local">>
    /\ client

C3_AlwaysReturnsString == pc = "done" => result.kind = "str"

\* C4 as stated: on every selector path, when the first provider failed with a
\* quota-type error and the second provider failed too, the text returned is
\* the quota phrase followed by the local answer for the query.
C4_QuotaPhraseOnEveryPath ==
    pc = "done" /\ Len(calls) = 3 /\ calls[2] = OtherProvider(calls[1]) /\ QuotaType(errs[1]) =>
        result = Return(QuotaPrefix \o local_kb_response(query, context))

\* C4 amended: on the default path (the selector names no provider), when
\* Gemini failed with a quota-type error and OpenAI failed too, the text
\* returned is 'Gemini API quota exceeded. ' followed by the local answer; with
\* the 'chatgpt' selector it is 'OpenAI error: <error text>' and a blank line
\* followed by the local answer, whatever the type of the error.
C4_QuotaPhraseOnDefaultPath ==
    pc = "done" /\ Len(calls) = 3 /\ QuotaType(errs[1]) =>
        /\ Route(model_choice) = "default" =>
              result = Return(QuotaPrefix \o local_kb_response(query, context))
        /\ Route(model_choice) = "chatgpt" =>
              result = Return(<<"O","p","e","n","A","I"," ","e","r","r","o","r",":"," ">> \o errs[1] \o <<"\n", "\n">>
                              \o local_kb_response(query, context))

C4_Witness ==
    /\ pc = "done"
    /\ Route(model_choice) = "default"
    /\ calls = <<"gemini", "chatgpt", "local">>
    /\ errs[1] = <<"G","e","m","i","n","i"," ","e","r","r","o","r",":"," ","Q","u","o","t","a"," ","e","x","c","e","e","d","e","d">>
    /\ IsPrefix(QuotaPrefix, result.text)

\* C5 as stated: when every provider called has failed, the local part of the
\* text returned is the answer of BuiltInChatbot.get_response to the query.
C5_LocalPartIsPatternRouter ==
    pc = "done" /\ Called("local") =>
        EndsWith(result.text, BuiltInChatbot_get_response(query, context).text)

\* C5 amended: when every provider called has failed, the text returned ends
\* with local_kb_response(query, context) of ai_backends, a keyword lookup of
\* its own (VQE, protein folding, quantum computing, or the no-API notice), in
\* front of which stands only the diagnostic prefix.
C5_LocalPartIsLocalKb ==
    pc = "done" /\ Called("local") =>
        /\ result.kind = "str"
        /\ EndsWith(result.text, local_kb_response(query, context))
        /\ Len(result.text) - Len(local_kb_response(query, context))
             = Len(DiagnosticPrefix(Route(model_choice), errs[1]))

C5_Witness ==
    /\ pc = "done"
    /\ Called("local")
    /\ query = <<"m","y"," ","p","r","o","t","e","i","n">>
    /\ context.current_protein = PyStr(<<"A","C","D","E">>)
    /\ EndsWith(result.text, <<"(","p","r","e","v","i","e","w",")",":"," ","A","C","D","E","."," ">>
                             \o <<"<kb: Protein folding depends on sequence interactions>">>)

\* C6 as stated: on no selector path does the text returned contain the raw
\* message of a provider that is not configured.
C6_NotConfiguredNeverSurfaced ==
    pc = "done" /\ result.kind = "str" =>
        /\ ~Contains(result.text, OpenAINotConfigured)
        /\ ~Contains(result.text, GeminiNotConfigured)

\* the provider called first is the one without a credential
FirstNotConfigured ==
    IF FirstProvider(Route(model_choice)) = "gemini" THEN ~GEMINI_API_KEY ELSE ~client

FirstNotConfiguredMessage ==
    IF FirstProvider(Route(model_choice)) = "gemini" THEN GeminiNotConfigured
    ELSE OpenAINotConfigured

\* C6 amended: a provider that is not configured never makes get_response
\* raise, it makes it fall back; but when the provider called first is the one
\* that is not configured and every provider called fails, the text returned
\* is a str that carries that provider's raw message in its diagnostic prefix.
C6_NotConfiguredFallsBackAndIsShown ==
    /\ pc = "done" => result.kind # "raise"
    /\ calls # <<>> /\ FirstNotConfigured => Len(errs) >= 1 /\ errs[1] = FirstNotConfiguredMessage
    /\ pc = "done" /\ Called("local") /\ FirstNotConfigured =>
          /\ result.kind = "str"
          /\ Contains(result.text, FirstNotConfiguredMessage)

C6_Witness ==
    /\ pc = "done"
    /\ ~GEMINI_API_KEY
    /\ Route(model_choice) = "default"
    /\ calls = <<"gemini", "chatgpt", "local">>
    /\ result = Return(<<"A","P","I"," ","e","r","r","o","r"," ","(","G","e","m","i","n","i"," ","A","P","I"," ","k","e","y"," ","n","o","t"," ","c","o","n","f","i","g","u","r","e","d",")","."," ">>
                       \o local_kb_response(query, context))

-----------------------------------------------------------------------------
\* Properties of BuiltInChatbot.get_response (checked under SpecRouter)

Routed == rresponse # NoResult

\* the rules having a pattern that matches q, by position in the table
MatchingRules(q) == { i \in 1..Len(Rules) : RuleMatches(Rules[i], q) }

Min(S) == CHOOSE i \in S : \A j \in S : i <= j

\* C7: the rules are tried in the order vqe_what, vqe_how, vqe_results_check,
\* ..., goodbye, and the response is that of the first rule with a pattern
\* that matches the lower-cased, trimmed query, whichever later rules match.
C7_FirstMatchWins ==
    /\ [i \in 1..Len(Rules) |-> Rules[RuleOrder[i]].category]
         = << "vqe_what", "vqe_how", "vqe_results_check", "protein_folding",
              "protein_sequence_check", "protein_structure", "quantum_advantage",
              "qubits", "ansatz", "optimizer", "diseases", "how_to_use",
              "greeting", "thanks", "goodbye" >>
    /\ Routed =>
          LET matching == MatchingRules(Strip(Lower(rquery)))
          IN  matching # {} => rresponse = Resolve(Rules[Min(matching)].response, rcontext)

C7_Witness ==
    /\ Routed
    /\ rquery = <<"s","e","q","u","e","n","c","e"," ","r","e","s","u","l","t">>
    /\ MatchingRules(rquery) = {3, 5}
    /\ rcontext = NotRunYet
    /\ rresponse = Return(NoResultsBlock)

\* the fields of the context are absent or strings
StringContext(ctx) ==
    /\ ctx.current_protein.t \in {"absent", "str"}
    /\ ctx.vqe_results.t \in {"absent", "str"}

\* C8: for a context whose fields are absent or strings, get_response returns
\* one str: the response of a rule that matches, or the output of
\* _get_fallback when no rule matches; it returns no None and does not raise.
C8_ExactlyOneResponse ==
    Routed /\ StringContext(rcontext) =>
        /\ rresponse.kind = "str"
        /\ LET q == Strip(Lower(rquery))
           IN  IF MatchingRules(q) = {}
               THEN rresponse = _get_fallback(q, rcontext)
               ELSE \E i \in MatchingRules(q) : rresponse = Resolve(Rules[i].response, rcontext)

C8_Witness ==
    /\ Routed
    /\ rquery = <<>>
    /\ MatchingRules(rquery) = {}
    /\ StringContext(rcontext)
    /\ rresponse = Return(GenericMenu)

\* C9: a query that matches a pattern of vqe_what gets the literal VQE
\* explanation whatever the context holds; 'What is VQE?' with an empty
\* context gets exactly that literal.
C9_VqeDefinitionIsLiteral ==
    /\ Routed /\ RuleMatches(RuleVqeWhat, Strip(Lower(rquery))) =>
          rresponse = Return(<<"<vqe_what>">>)
    /\ Routed /\ rquery = WhatIsVQE => rresponse = Return(<<"<vqe_what>">>)

C9_Witness ==
    /\ Routed
    /\ rquery = WhatIsVQE
    /\ rcontext = EmptyContext
    /\ rresponse = Return(<<"<vqe_what>">>)

\* the context holds no results yet
NoResultsYet(ctx) ==
    \/ ctx.vqe_results.t \in {"absent", "none"}
    \/ ctx.vqe_results = PyStr(<<>>)
    \/ ctx.vqe_results = PyStr(<<"N","o","t"," ","r","u","n"," ","y","e","t">>)

\* C10 as stated: every query of the results keyword group, asked while the
\* context holds no results, gets the 'No VQE Results Available' block; so
\* does 'show me my results' with the context {vqe_results: 'Not run yet'}.
C10_NoResultsGuidance ==
    /\ Routed /\ RuleMatches(RuleVqeResultsCheck, Strip(Lower(rquery))) /\ NoResultsYet(rcontext) =>
          rresponse = Return(NoResultsBlock)
    /\ Routed /\ rquery = ShowMeMyResults /\ rcontext = NotRunYet =>
          rresponse = Return(NoResultsBlock)


-----------------------------------------------------------------------------
\* Properties of the context-dependent answers and of the fallback (checked
\* under SpecRouter)

\* the category of the rule whose response get_response resolves for query q
RuleFor(q) ==
    LET matching == MatchingRules(Strip(Lower(q)))
    IN  IF matching = {} THEN "none" ELSE Rules[Min(matching)].category

RoutedRule == RuleFor(rquery)

\* the context holds a results value (one that is neither missing, empty, nor
\* the session's 'Not run yet')
HoldsResults(ctx) ==
    /\ ctx.given
    /\ Truthy(Get(ctx.vqe_results))
    /\ ctx.vqe_results # PyStr(<<"N","o","t"," ","r","u","n"," ","y","e","t">>)

\* C11: when the results rule is resolved and the context holds a results
\* value, _get_vqe_results returns a str whatever the value is: the generic
\* 'results are available' message if the value's string form lacks
\* 'final_energy', the result text unparsed if it has it, and the generic
\* 'VQE has been run' message if taking the string form raises.
C11_ResultsFormatterNeverRaises ==
    Routed /\ RoutedRule = "vqe_results_check" /\ HoldsResults(rcontext) =>
        /\ rresponse.kind = "str"
        /\ rcontext.vqe_results.t = "object" => rresponse = Return(VqeHasBeenRun)
        /\ rcontext.vqe_results.t # "object" =>
              IF Contains(Format(rcontext.vqe_results), <<"f","i","n","a","l","_","e","n","e","r","g","y">>)
              THEN Contains(rresponse.text, Format(rcontext.vqe_results))
              ELSE rresponse = Return(ResultsAvailable)

C11_Witness ==
    /\ Routed
    /\ RoutedRule = "vqe_results_check"
    /\ rcontext.vqe_results = PyObject
    /\ rresponse = Return(VqeHasBeenRun)

\* the letters of s are all amino-acid letters
IsAminoSeq(s) == \A i \in 1..Len(s) : \E k \in 1..Len(AMINO_ACIDS) : s[i] = AMINO_ACIDS[k]

\* the sequence answer prints `len` amino acids and `qubits` qubits
Reports(text, len, qubits) ==
    Contains(text, <<"<Length: >">> \o Decimal(len)
                   \o <<"< amino acids. Estimated Qubits: ~>">> \o Decimal(qubits)
                   \o <<"< qubits. Status: Ready for VQE simulation>">>)

\* C12: when the sequence rule is resolved and current_protein is a sequence
\* of L >= 1 amino-acid letters (L > 50 included), the response reports
\* exactly L amino acids and exactly 3*(L-1) qubits.
C12_ReportsLengthAndQubits ==
    /\ Routed
    /\ RoutedRule = "protein_sequence_check"
    /\ rcontext.current_protein.t = "str"
    /\ Len(rcontext.current_protein.s) >= 1
    /\ IsAminoSeq(rcontext.current_protein.s)
    => /\ rresponse.kind = "str"
       /\ Reports(rresponse.text, Len(rcontext.current_protein.s),
                  3 * (Len(rcontext.current_protein.s) - 1))

C12_Witness ==
    /\ Routed
    /\ RoutedRule = "protein_sequence_check"
    /\ rcontext.current_protein = PyStr(AminoSeq(PreviewLimit + 1))
    /\ Reports(rresponse.text, PreviewLimit + 1, 3 * PreviewLimit)

\* a value the claim counts as "nothing there", whichever field holds it
AnySentinel(v) ==
    \/ v.t \in {"absent", "none"}
    \/ v = PyStr(<<"N","o","n","e">>)
    \/ v = PyStr(<<"N","o","t"," ","r","u","n"," ","y","e","t">>)

FirstGroupBlock(q) ==
    LET groups == << [words |-> EnergyKeywords, block |-> EnergyBlock],
                     [words |-> ExportKeywords, block |-> ExportBlock],
                     [words |-> PerformanceKeywords, block |-> PerformanceBlock] >>
        present == { i \in 1..Len(groups) : \E w \in groups[i].words : Contains(q, w) }
    IN  IF present = {} THEN GenericMenu ELSE groups[Min(present)].block

\* C20: when no rule matches, the response is the static block of the first
\* of the groups energy/convergence, export/download, performance/timing that
\* has a keyword in the query, and the generic menu when none has, as for the
\* empty query.
C20_FallbackPriority ==
    /\ Routed /\ RoutedRule = "none" =>
          rresponse = Return(FirstGroupBlock(Strip(Lower(rquery))))
    /\ Routed /\ rquery = <<>> => rresponse = Return(GenericMenu)

C20_Witness ==
    /\ Routed
    /\ RoutedRule = "none"
    /\ rquery = <<"h","a","r","t","r","e","e"," ","s","a","v","e">>
    /\ rresponse = Return(EnergyBlock)


-----------------------------------------------------------------------------
\* Properties of the dashboard session (checked under SpecSession)

\* the last script run routed a chat query and appended the answer
ChatRouted ==
    /\ routed_query # <<>>
    /\ chat_history # <<>>
    /\ chat_history[Len(chat_history)].role = "assistant"

\* the content of the last message of the transcript
LastAnswer == chat_history[Len(chat_history)].content

\* C13: after a sequence of length L was loaded into the session, a sequence
\* query answered through the session's chat context reports length L and
\* 3*(L-1) qubits, for L > 50 as well.
C13_ChatReportsLoadedLength ==
    ChatRouted /\ RuleFor(routed_query) = "protein_sequence_check" /\ protein_sequence # <<>> =>
        /\ LastAnswer.t = "str"
        /\ Reports(LastAnswer.s, Len(protein_sequence), 3 * (Len(protein_sequence) - 1))

\* C14: whatever events came before, the context a chat query is routed with
\* reflects the session at that moment: current_protein is 'None' without a
\* sequence, the sequence if it has at most 50 characters, else its first 50
\* characters and '...'; vqe_results is 'Not run yet' without results, else
\* the string form of the stored results.
C14_RoutedContextIsCurrent ==
    ChatRouted =>
        /\ routed_context.current_protein =
              IF protein_sequence = <<>> THEN PyStr(<<"N","o","n","e">>)
              ELSE IF Len(protein_sequence) <= 50 THEN PyStr(protein_sequence)
              ELSE PyStr(SubSeq(protein_sequence, 1, 50) \o <<".",".",".">>)
        /\ routed_context.vqe_results =
              IF vqe_results.t = "none" THEN PyStr(<<"N","o","t"," ","r","u","n"," ","y","e","t">>)
              ELSE PyStr(ResultsStr(vqe_results))

C14_Witness ==
    /\ ChatRouted
    /\ Len(protein_sequence) > 50
    /\ vqe_results.t = "dict"
    /\ routed_context.current_protein = PyStr(SubSeq(protein_sequence, 1, 50) \o <<".",".",".">>)
    /\ Contains(routed_context.vqe_results.s, <<"'","n","u","m","_","q","u","b","i","t","s","'",":"," ","1","5","0">>)

\* C17: a sequence for which validate_sequence is false is never the session
\* sequence and is never given to run_vqe_simulation.
C17_OnlyValidSequences ==
    /\ validate_sequence(protein_sequence)
    /\ validate_sequence(vqe_input)

\* the lookup of the script run got no 200 response
LookupFailed(response) ==
    /\ response # NoRequest
    /\ response.raised \/ response.status_code # 200

\* C18: a lookup that gets a non-200 response or an exception returns None,
\* and the script run it happens in leaves the stored sequence and the stored
\* results as they were.
C18_FailedLookupChangesNothing ==
    [][LookupFailed(http') =>
          /\ fetch_from_uniprot(http') = PyNone
          /\ fetch_from_pdb(http') = PyNone
          /\ UNCHANGED <<protein_sequence, vqe_results, energy_history,
                         classical_results>>]_vars

C18_Witness ==
    /\ LookupFailed(http)
    /\ ~http.raised
    /\ http.text # <<>>
    /\ protein_sequence # <<>>
    /\ vqe_results.t = "dict"

\* C19 as stated: every operation of the session leaves the transcript a
\* prefix of what it becomes.
C19_TranscriptOnlyGrows ==
    [][IsPrefix(chat_history, chat_history')]_vars

\* C19 amended: every operation of the session other than Clear Chat leaves
\* all entries of the transcript unchanged in role, content and position (the
\* transcript before is a prefix of the transcript after); Clear Chat empties
\* the transcript.
C19_OnlyClearChatRemoves ==
    [][ClearChat \/ IsPrefix(chat_history, chat_history')]_vars

C19_Witness ==
    /\ ChatRouted
    /\ Len(chat_history) >= 4
    /\ chat_history[1].role = "user"
    /\ chat_history[2].role = "assistant"
    /\ chat_history[3] = Message("user", PyStr(routed_query))

-----------------------------------------------------------------------------
\* Further properties of ai_backends.get_response (checked under Spec)

\* the bucket the claim puts an error text in, and the prefix of that bucket
ClassifiedPrefix(e) ==
    IF Contains(Lower(e), <<"q","u","o","t","a">>) \/ Contains(e, <<"4","2","9">>)
    THEN <<"G","e","m","i","n","i"," ","A","P","I"," ","q","u","o","t","a"," ","e","x","c","e","e","d","e","d","."," ">>
    ELSE IF Contains(e, <<"4","0","0">>)
    THEN <<"G","e","m","i","n","i"," ","A","P","I"," ","c","o","n","f","i","g","u","r","a","t","i","o","n"," ","e","r","r","o","r"," ","(","c","h","e","c","k"," ","k","e","y"," ","p","e","r","m","i","s","s","i","o","n","s",")","."," ">>
    ELSE <<"A","P","I"," ","e","r","r","o","r"," ","(">> \o SubSeq(e, 1, IF Len(e) < 100 THEN Len(e) ELSE 100) \o <<")","."," ">>

\* C21 as stated: on every selector path, when all providers called have
\* failed, the text returned is the prefix of the bucket of the error text
\* (quota, else configuration, else generic with at most 100 characters of
\* the text) followed by the local answer.
C21_ClassifiedOnEveryPath ==
    pc = "done" /\ Called("local") =>
        result = Return(ClassifiedPrefix(errs[1]) \o local_kb_response(query, context))

\* C21 amended: the failure is classified only on the default path (the
\* selector names no provider), from the text of the Gemini error: 'quota' in
\* any case or '429' gives the quota prefix, otherwise '400' gives the
\* configuration prefix, otherwise the generic prefix with at most the first
\* 100 characters of the text; the text returned is that prefix followed by
\* the local answer.  With the 'gemini' selector the text returned is
\* 'Gemini error: <error text>', a blank line and the local answer, with the
\* 'chatgpt' selector 'OpenAI error: <error text>', a blank line and the local
\* answer, whatever the text contains.
C21_ClassifiedOnDefaultPath ==
    pc = "done" /\ Called("local") =>
        /\ Route(model_choice) = "default" =>
              /\ calls = <<"gemini", "chatgpt", "local">>
              /\ result = Return(ClassifiedPrefix(errs[1])
                                 \o local_kb_response(query, context))
        /\ Route(model_choice) = "gemini" =>
              result = Return(<<"G","e","m","i","n","i"," ","e","r","r","o","r",":"," ">> \o errs[1] \o <<"\n", "\n">>
                              \o local_kb_response(query, context))
        /\ Route(model_choice) = "chatgpt" =>
              result = Return(<<"O","p","e","n","A","I"," ","e","r","r","o","r",":"," ">> \o errs[1] \o <<"\n", "\n">>
                              \o local_kb_response(query, context))

C21_Witness ==
    /\ pc = "done"
    /\ Route(model_choice) = "default"
    /\ Called("local")
    /\ errs[1] = <<"G","e","m","i","n","i"," ","e","r","r","o","r",":"," ">> \o LongError
    /\ Len(result.text) = Len(<<"A","P","I"," ","e","r","r","o","r"," ","(">>) + 100 + Len(<<")","."," ">>)
                          + Len(local_kb_response(query, context))

\* how many times strategy `name` was invoked by this call of get_response
Invocations(name) == Cardinality({ i \in 1..Len(calls) : calls[i] = name })

\* C22: within one call of get_response, get_gemini_response,
\* get_chatgpt_response and local_kb_response are each invoked at most once,
\* so at most three strategies are attempted, on every selector path and
\* whatever fails.
C22_EachStrategyAtMostOnce ==
    /\ \A name \in {"gemini", "chatgpt", "local"} : Invocations(name) <= 1
    /\ Len(calls) <= 3

C22_Witness ==
    /\ pc = "done"
    /\ Len(calls) = 3
    /\ Len(errs) = 2
    /\ \A name \in {"gemini", "chatgpt", "local"} : Invocations(name) = 1

\* the calls of this request that did not fail
Successes == Len(calls) - Len(errs)

\* what a provider returns when its remote call answers
ProviderAnswers ==
    { Return(<<"G","1">>), Return(<<"G","2">>), Return(<<"A","1">>), Return(<<"A","2">>), Return(<<>>),
      ReturnNone, Return(<<"<str(choice)>">>), Return(<<"<str(resp)>">>) }

\* C23: the chain stops at the first success: once a provider attempt did
\* not fail, get_response returns exactly what that provider returned (no
\* prefix, no local answer) and invokes no later strategy, also when an
\* earlier provider of the chain had failed.
C23_StopsAtFirstSuccess ==
    calls # <<>> /\ calls[Len(calls)] # "local" /\ Successes >= 1 =>
        /\ Successes = 1
        /\ pc \in {"done", "idle"}
        /\ result \in ProviderAnswers
        /\ ~Called("local")

C23_Witness ==
    /\ pc = "done"
    /\ calls = <<"gemini", "chatgpt">>
    /\ Len(errs) = 1
    /\ result = Return(<<"A","1">>)

-----------------------------------------------------------------------------
\* Properties of get_gemini_response (checked under SpecGemini)

GeminiCalled == gresult # NoResult

\* C29: with a key configured, get_gemini_response returns the text of the
\* requested model if that call answers; if it fails and the requested model
\* is not the fallback model, it returns the text of the fallback model if
\* that call answers; if both fail (or the requested model is the fallback
\* model, which is then not tried again) it raises 'Gemini error: ' with the
\* text of the first failure, so the error is of the quota type exactly when
\* the first failure is.
C29_FallbackModelOnceFirstErrorKept ==
    GeminiCalled /\ GEMINI_API_KEY =>
        /\ gfirst.ok => gresult = Return(gfirst.text)
        /\ ~gfirst.ok /\ gmodel # "models/gemini-flash-latest" /\ gsecond.ok =>
              gresult = Return(gsecond.text)
        /\ ~gfirst.ok /\ (gmodel = "models/gemini-flash-latest" \/ ~gsecond.ok) =>
              /\ gresult = Raise(<<"G","e","m","i","n","i"," ","e","r","r","o","r",":"," ">> \o gfirst.err)
              /\ QuotaType(gresult.text) <=> QuotaType(gfirst.err)

C29_Witness ==
    /\ GeminiCalled
    /\ GEMINI_API_KEY
    /\ gmodel = DefaultGeminiModel
    /\ gfirst = Failure(<<"t","i","m","e","d"," ","o","u","t">>)
    /\ gsecond = Failure(<<"H","T","T","P"," ","4","2","9">>)
    /\ gresult = Raise(<<"G","e","m","i","n","i"," ","e","r","r","o","r",":"," ","t","i","m","e","d"," ","o","u","t">>)

-----------------------------------------------------------------------------
\* Further properties of the dashboard session (checked under SpecSession)

\* C24: for the PDB lookup and for the UniProt lookup alike, the 'Input
\* Method' radio has an option whose branch of the Home page invokes the
\* fetch function and stores what it fetched.
C24_BothLookupsSelectable ==
    /\ ENABLED FetchFromPDB
    /\ ENABLED FetchFromUniProt

\* the transcript has even length and alternates user, assistant from a user
\* message on
Alternates(history) ==
    /\ Len(history) % 2 = 0
    /\ \A i \in 1..Len(history) :
          history[i].role = IF i % 2 = 1 THEN "user" ELSE "assistant"

\* C25: every submitted chat input appends exactly two messages, the user's
\* input and then the router's response to it under the context of that
\* moment, so that in every state the transcript has even length and
\* alternates user, assistant, starting with user.
C25_UserThenAssistant ==
    /\ [](Alternates(chat_history))
    /\ [][routed_query' # <<>> =>
             chat_history' = chat_history
                 \o << [role |-> "user", content |-> PyStr(routed_query')],
                       [role |-> "assistant",
                        content |-> PyStr(BuiltInChatbot_get_response(
                                              routed_query', routed_context').text)] >>]_vars

C25_Witness ==
    /\ ChatRouted
    /\ Len(chat_history) = 4
    /\ Alternates(chat_history)
    /\ chat_history[2].content # chat_history[4].content
    /\ chat_history[4].content =
          PyStr(BuiltInChatbot_get_response(routed_query, routed_context).text)

\* C26: stored VQE results belong to the loaded sequence: whenever vqe_results
\* is present, its num_qubits is 3 * (len(protein_sequence) - 1).
C26_ResultsOfLoadedSequence ==
    vqe_results.t = "dict" =>
        vqe_results.num_qubits = 3 * (Len(protein_sequence) - 1)

\* a non-empty string of standard upper-case amino-acid letters
IsResidueChain(s) ==
    /\ s # <<>>
    /\ IsAminoSeq(s)

\* C27: after a successful 'Validate Sequence' or 'Use this sequence' the
\* stored sequence is non-empty and made of the 20 standard upper-case
\* letters only; a blank entry never replaces a loaded sequence.
C27_StoredSequenceIsResidueChain ==
    [][(ValidateSequence \/ UseThisSequence) =>
          \/ protein_sequence' = protein_sequence
          \/ IsResidueChain(protein_sequence')]_vars

\* C28: results come into existence only through the gated run step: a run
\* stores results only while a non-empty sequence is loaded and a configuration
\* is saved, and the results record the ansatz, optimizer and iteration count
\* of that configuration; a configuration is saved only while a sequence is
\* loaded; so stored results imply a saved configuration.
C28_ResultsOnlyFromGatedRun ==
    /\ [](vqe_results.t = "dict" => config # NoConfig)
    /\ [][/\ vqe_results' # vqe_results =>
                /\ protein_sequence # <<>>
                /\ config # NoConfig
                /\ vqe_results'.t = "dict"
                /\ vqe_results'.ansatz = config.ansatz
                /\ vqe_results'.optimizer = config.optimizer
                /\ vqe_results'.iterations = config.max_iter
          /\ config' # config => protein_sequence # <<>>]_vars

C28_Witness ==
    /\ vqe_input # <<>>
    /\ vqe_input = protein_sequence
    /\ vqe_results.t = "dict"
    /\ vqe_results.iterations = config.max_iter
    /\ config.max_iter < 100

\* C30: none of the example questions that the router's own answers propose
\* is answered with the generic menu.
C30_AdvertisedQuestionsAnswered ==
    Routed /\ rquery \in AdvertisedQuestions => rresponse # Return(GenericMenu)
====
